---- MODULE Spec2Model ----
(***************************************************************************)
(* State-machine model of src/src/main.rs (Game: input tracking, player    *)
(* movement, camera follow, frame clock).                                  *)
(*                                                                         *)
(* Numbers.  The program computes in f32.  The model computes exactly in   *)
(* the ring Z[sqrt 2] scaled by a fixed denominator: a scalar <<a, b>>     *)
(* stands for (a + b*sqrt(2)) / Den.  sqrt(2) is needed because            *)
(* normalising a diagonal movement vector divides by sqrt(2).  The one     *)
(* non-finite value the code can produce, NaN (0/0 in normalize()), is the *)
(* scalar NaN.  Rounding of f32 is not modelled.                           *)
(*                                                                         *)
(* Time.  Instants and durations are counted in ticks of a quarter of a    *)
(* second, so the f32 `dt` of the program is dt/4 seconds in the model.    *)
(***************************************************************************)
EXTENDS Integers, Sequences, FiniteSets, TLC

\* Bound: Game::update is called at most MaxUpdates times in a behaviour.
MaxUpdates == 2

\* Ticks per second of the model's clock (the quarter-second tick).
TicksPerSecond == 2 * 2

\* Common denominator of all scalars.  Every update halves at most once
\* (the lerp factor is dt*2 = ticks/2), the diagonal unit vector needs a
\* further 2 and speed*dt a further TicksPerSecond.
Den == 2 * TicksPerSecond * (2 ^ MaxUpdates)

\* Elapsed times between two readings of Instant::now(), in ticks:
\* 0 s, 0.25 s, 0.5 s, 1 s, 2 s.
Durations == {0, 1, 2, 4, 8}

\* Instant::now() at construction, in ticks.
StartInstants == {3}

----------------------------------------------------------------------------
(* Scalars of Z[sqrt 2]/Den and NaN *)

NaN == <<>>

Abs(n) == IF n < 0 THEN -n ELSE n

RECURSIVE Gcd(_, _)
Gcd(m, n) == IF n = 0 THEN Abs(m) ELSE Gcd(Abs(n), Abs(m) % Abs(n))

\* the rational number n/m
Q(n, m) == <<(n * Den) \div m, 0>>

SAdd(p, q) == IF p = NaN \/ q = NaN THEN NaN ELSE <<p[1] + q[1], p[2] + q[2]>>

SNeg(p) == IF p = NaN THEN NaN ELSE <<-p[1], -p[2]>>

SSub(p, q) == SAdd(p, SNeg(q))

\* p * n / m for integers n, m
SScale(p, n, m) == IF p = NaN THEN NaN ELSE <<(p[1] * n) \div m, (p[2] * n) \div m>>

\* p * sqrt(2) / 2, that is p / sqrt(2)
SDivSqrt2(p) == IF p = NaN THEN NaN ELSE <<p[2], p[1] \div 2>>

\* The product p*q, in units of 1/Den^2.
SMul(p, q) == <<p[1] * q[1] + 2 * p[2] * q[2], p[1] * q[2] + p[2] * q[1]>>

\* sign of a + b*sqrt(2)
SSign(p) ==
    LET a == p[1]
        b == p[2]
    IN  IF a = 0 /\ b = 0 THEN 0
        ELSE IF a >= 0 /\ b >= 0 THEN 1
        ELSE IF a <= 0 /\ b <= 0 THEN -1
        ELSE IF a > 0 THEN (IF a * a > 2 * b * b THEN 1 ELSE -1)
        ELSE (IF 2 * b * b > a * a THEN 1 ELSE -1)

SLess(p, q) == p # NaN /\ q # NaN /\ SSign(SSub(q, p)) = 1

----------------------------------------------------------------------------
(* Vector3<f32> *)

Vec(x, y, z) == <<Q(x, 1), Q(y, 1), Q(z, 1)>>

NaNVec == <<NaN, NaN, NaN>>

IsNaNVec(v) == \E i \in 1..3 : v[i] = NaN

VAdd(v, w) == [i \in 1..3 |-> SAdd(v[i], w[i])]

VSub(v, w) == [i \in 1..3 |-> SSub(v[i], w[i])]

VScale(v, n, m) == [i \in 1..3 |-> SScale(v[i], n, m)]

\* |v|^2 in units of 1/Den^2
MagnitudeSquared(v) ==
    LET s == [i \in 1..3 |-> SMul(v[i], v[i])]
    IN  <<s[1][1] + s[2][1] + s[3][1], s[1][2] + s[2][2] + s[3][2]>>

\* Vector3::magnitude() > 0.0
MagnitudePositive(v) == ~IsNaNVec(v) /\ \E i \in 1..3 : SSign(v[i]) # 0

\* Vector3::normalize() of a vector whose length is 0, 1 or sqrt(2) (every
\* raw movement vector is one): v / |v|, and 0/0 = NaN for the zero vector.
Normalize(v) ==
    LET m2 == MagnitudeSquared(v)
    IN  IF IsNaNVec(v) \/ m2 = <<0, 0>> THEN NaNVec
        ELSE IF m2 = <<2 * Den * Den, 0>> THEN [i \in 1..3 |-> SDivSqrt2(v[i])]
        ELSE v

\* Vector3::lerp(&rhs, t) with t = n/2: self * (1 - t) + rhs * t.
Lerp(v, rhs, n) == [i \in 1..3 |-> SScale(SAdd(SScale(v[i], 2 - n, 1), SScale(rhs[i], n, 1)), 1, 2)]

\* Vector3::normalize() of an arbitrary vector.  Its length is in general
\* not in Z[sqrt 2], so the unit vector is represented by the shortest
\* integer vector of the same ray; NaN for the zero vector (0/0).
UnitDirection(v) ==
    IF IsNaNVec(v) \/ ~MagnitudePositive(v) THEN NaNVec
    ELSE LET g == Gcd(Gcd(Gcd(v[1][1], v[1][2]), Gcd(v[2][1], v[2][2])),
                      Gcd(v[3][1], v[3][2]))
         IN  [i \in 1..3 |-> <<v[i][1] \div g, v[i][2] \div g>>]

\* UnitQuaternion values: the identity, a look-at rotation, or NaN.
RotIdentity == <<"identity">>

RotNaN == <<"nan">>

\* UnitQuaternion::look_at_rh(&dir, &Vector3::y()): the x axis of the
\* rotation is normalize(up x dir), which is NaN when dir is NaN or is
\* parallel to the up axis.
LookAtRh(dir) ==
    IF IsNaNVec(dir) \/ (SSign(dir[1]) = 0 /\ SSign(dir[3]) = 0) THEN RotNaN
    ELSE <<"look_at", dir>>

----------------------------------------------------------------------------
(* The program *)

VARIABLES
    input_state,      \* Game.input_state
    scene,            \* the player and camera nodes of engine.scenes[self.scene]
    last_time,        \* Game.last_time, in ticks
    dt,               \* `dt` of the latest Game::update, in ticks
    target_position,  \* `target_position` of the latest update_camera
    clock,            \* the latest reading of Instant::now()
    created,          \* Instant::now() read by Game::new
    dt_total,         \* sum of `dt` over all updates
    updates,          \* number of calls of Game::update
    before1,          \* <<scene before the latest update>> if its dt was 0
    before2           \* <<scene before the latest two updates>> if both had dt 0

vars == <<input_state, scene, last_time, dt, target_position, clock, created,
          dt_total, updates, before1, before2>>

Speed == 5

CameraOffset == Vec(0, 3, 5)

KeyCodes == {"W", "S", "A", "D", "Space", "None"}

ElementStates == {"Pressed", "Released"}

\* DeviceEvent values: a mouse motion, and one that is not a mouse motion.
DeviceEvents == {[type |-> "MouseMotion", delta |-> <<1, -2>>],
                 [type |-> "Button", delta |-> <<0, 0>>]}

\* InputState::default()
InputStateDefault ==
    [move_forward |-> FALSE, move_backward |-> FALSE, move_left |-> FALSE,
     move_right |-> FALSE, mouse_delta |-> <<0, 0, 0>>, camera_yaw |-> 0,
     camera_pitch |-> 0]

\* create_player: position (0, 1, 0), default rotation
CreatePlayer == [live |-> TRUE, position |-> Vec(0, 1, 0), rotation |-> RotIdentity]

\* create_camera: position (0, 3, 5), default rotation
CreateCamera == [live |-> TRUE, position |-> Vec(0, 3, 5), rotation |-> RotIdentity]

\* Game::new
Init ==
    /\ input_state = InputStateDefault
    /\ scene = [player |-> CreatePlayer, camera |-> CreateCamera]
    /\ last_time \in StartInstants
    /\ clock = last_time
    /\ created = last_time
    /\ dt = 0
    /\ dt_total = 0
    /\ target_position = NaNVec
    /\ updates = 0
    /\ before1 = <<>>
    /\ before2 = <<>>

\* Instant::duration_since: zero when `earlier` is later than self.
DurationSince(now, earlier) == IF now >= earlier THEN now - earlier ELSE 0

\* Mutant of ReadClock: the reading is not stored as last_time.
ReadClock_KeepsLastTime(last, now) ==
    [dt |-> DurationSince(now, last), last_time |-> last]

\* The first three statements of Game::update.
ReadClock(last, now) == [dt |-> DurationSince(now, last), last_time |-> now]

\* Mutant of RawMovement: backward and right assign (= 1.0) instead of
\* adding (+= 1.0).
RawMovement_Assign(input) ==
    LET z1 == IF input.move_forward THEN -1 ELSE 0
        z2 == IF input.move_backward THEN 1 ELSE z1
        x1 == IF input.move_left THEN -1 ELSE 0
        x2 == IF input.move_right THEN 1 ELSE x1
    IN  Vec(x2, 0, z2)

\* The movement vector before normalisation.
RawMovement(input) ==
    LET z1 == IF input.move_forward THEN -1 ELSE 0
        z2 == IF input.move_backward THEN z1 + 1 ELSE z1
        x1 == IF input.move_left THEN -1 ELSE 0
        x2 == IF input.move_right THEN x1 + 1 ELSE x1
    IN  Vec(x2, 0, z2)

\* Mutant of UpdatePlayerMovement: the movement vector is not normalised.
UpdatePlayerMovement_NoNormalize(frame, input, d) ==
    LET raw == RawMovement(input)
        movement == VScale(raw, Speed * d, TicksPerSecond)
    IN  IF MagnitudePositive(raw) /\ frame.scene.player.live
        THEN [frame EXCEPT !.scene.player.position = VAdd(@, movement)]
        ELSE frame

\* Mutant of UpdatePlayerMovement: the movement vector is not scaled by dt.
UpdatePlayerMovement_IgnoresDt(frame, input, d) ==
    LET raw == RawMovement(input)
        movement == VScale(Normalize(raw), Speed, 1)
    IN  IF MagnitudePositive(raw) /\ frame.scene.player.live
        THEN [frame EXCEPT !.scene.player.position = VAdd(@, movement)]
        ELSE frame

\* Game::update_player_movement on a frame [scene, target_position].
UpdatePlayerMovement(frame, input, d) ==
    LET raw == RawMovement(input)
        movement == VScale(Normalize(raw), Speed * d, TicksPerSecond)
    IN  IF MagnitudePositive(raw) /\ frame.scene.player.live
        THEN [frame EXCEPT !.scene.player.position = VAdd(@, movement)]
        ELSE frame

\* Mutant of UpdateCamera: the interpolation factor is dt * 4.0.
UpdateCamera_DoubleFactor(frame, d) ==
    IF ~frame.scene.player.live THEN frame
    ELSE LET player_position == frame.scene.player.position
             target == VAdd(player_position, CameraOffset)
             new_position == Lerp(frame.scene.camera.position, target, 2 * d)
             look_direction == UnitDirection(VSub(player_position, new_position))
         IN  IF ~frame.scene.camera.live
             THEN [frame EXCEPT !.target_position = target]
             ELSE [scene |-> [frame.scene EXCEPT
                                 !.camera.position = new_position,
                                 !.camera.rotation = LookAtRh(look_direction)],
                   target_position |-> target]

\* Mutant of UpdateCamera: the player's position is read without checking
\* that the player node is there.
UpdateCamera_NoPlayerCheck(frame, d) ==
    LET player_position == frame.scene.player.position
        target == VAdd(player_position, CameraOffset)
        new_position == Lerp(frame.scene.camera.position, target, d)
        look_direction == UnitDirection(VSub(player_position, new_position))
    IN  IF ~frame.scene.camera.live
        THEN [frame EXCEPT !.target_position = target]
        ELSE [scene |-> [frame.scene EXCEPT
                            !.camera.position = new_position,
                            !.camera.rotation = LookAtRh(look_direction)],
              target_position |-> target]

\* Game::update_camera on a frame [scene, target_position].
UpdateCamera(frame, d) ==
    IF ~frame.scene.player.live THEN frame
    ELSE LET player_position == frame.scene.player.position
             target == VAdd(player_position, CameraOffset)
             new_position == Lerp(frame.scene.camera.position, target, d)
             look_direction == UnitDirection(VSub(player_position, new_position))
         IN  IF ~frame.scene.camera.live
             THEN [frame EXCEPT !.target_position = target]
             ELSE [scene |-> [frame.scene EXCEPT
                                 !.camera.position = new_position,
                                 !.camera.rotation = LookAtRh(look_direction)],
                   target_position |-> target]

\* Mutant of UpdateFrame: the camera step runs before the movement step.
UpdateFrame_CameraFirst(frame, input, d) ==
    UpdatePlayerMovement(UpdateCamera(frame, d), input, d)

\* The body of Game::update after the clock is read.
UpdateFrame(frame, input, d) ==
    UpdateCamera(UpdatePlayerMovement(frame, input, d), d)

\* Mutant of HandleKeyInput: S writes move_forward.
HandleKeyInput_SWritesForward(input, key_code, state) ==
    LET is_pressed == (state = "Pressed")
    IN  CASE key_code = "W" -> [input EXCEPT !.move_forward = is_pressed]
          [] key_code = "S" -> [input EXCEPT !.move_forward = is_pressed]
          [] key_code = "A" -> [input EXCEPT !.move_left = is_pressed]
          [] key_code = "D" -> [input EXCEPT !.move_right = is_pressed]
          [] OTHER -> input

\* Game::handle_key_input
HandleKeyInput(input, key_code, state) ==
    LET is_pressed == (state = "Pressed")
    IN  CASE key_code = "W" -> [input EXCEPT !.move_forward = is_pressed]
          [] key_code = "S" -> [input EXCEPT !.move_backward = is_pressed]
          [] key_code = "A" -> [input EXCEPT !.move_left = is_pressed]
          [] key_code = "D" -> [input EXCEPT !.move_right = is_pressed]
          [] OTHER -> input

\* Game::handle_device_event
HandleDeviceEvent(input, device_event) ==
    IF device_event.type = "MouseMotion"
    THEN [input EXCEPT !.mouse_delta = <<device_event.delta[1], device_event.delta[2], @[3]>>]
    ELSE input

\* Mutant of Update: the update consumes the mouse delta.
Update_ConsumesMouseDelta(d) ==
    /\ updates < MaxUpdates
    /\ LET c == ReadClock(last_time, clock + d)
           f == UpdateFrame([scene |-> scene, target_position |-> target_position],
                            input_state, c.dt)
       IN  /\ clock' = clock + d
           /\ dt' = c.dt
           /\ last_time' = c.last_time
           /\ scene' = f.scene
           /\ target_position' = f.target_position
           /\ dt_total' = dt_total + c.dt
           /\ before1' = IF c.dt = 0 THEN <<scene>> ELSE <<>>
           /\ before2' = IF c.dt = 0 /\ before1 # <<>> THEN before1 ELSE <<>>
    /\ updates' = updates + 1
    /\ input_state' = [input_state EXCEPT !.mouse_delta = <<0, 0, 0>>]
    /\ UNCHANGED created

\* Event::RedrawRequested: game.update(&mut engine), the clock having
\* advanced by d ticks since it was last read.
Update(d) ==
    /\ updates < MaxUpdates
    /\ LET c == ReadClock(last_time, clock + d)
           f == UpdateFrame([scene |-> scene, target_position |-> target_position],
                            input_state, c.dt)
       IN  /\ clock' = clock + d
           /\ dt' = c.dt
           /\ last_time' = c.last_time
           /\ scene' = f.scene
           /\ target_position' = f.target_position
           /\ dt_total' = dt_total + c.dt
           /\ before1' = IF c.dt = 0 THEN <<scene>> ELSE <<>>
           /\ before2' = IF c.dt = 0 /\ before1 # <<>> THEN before1 ELSE <<>>
    /\ updates' = updates + 1
    /\ UNCHANGED <<input_state, created>>

\* WindowEvent::KeyboardInput: game.handle_key_input(&input)
KeyInput(key_code, state) ==
    /\ input_state' = HandleKeyInput(input_state, key_code, state)
    /\ UNCHANGED <<scene, last_time, dt, target_position, clock, created,
                   dt_total, updates, before1, before2>>

\* Event::DeviceEvent: game.handle_device_event(&event)
DeviceEvent(device_event) ==
    /\ input_state' = HandleDeviceEvent(input_state, device_event)
    /\ UNCHANGED <<scene, last_time, dt, target_position, clock, created,
                   dt_total, updates, before1, before2>>

\* The host removes a node from the scene graph: its handle is dead from
\* then on, and Graph::try_get / try_get_mut return None for it.
HostRemoveNode(n) ==
    /\ scene[n].live
    /\ scene' = [scene EXCEPT ![n].live = FALSE]
    /\ UNCHANGED <<input_state, last_time, dt, target_position, clock, created,
                   dt_total, updates, before1, before2>>

\* The event loop of main.
Next ==
    \/ \E d \in Durations : Update(d)
    \/ \E k \in KeyCodes, s \in ElementStates : KeyInput(k, s)
    \/ \E e \in DeviceEvents : DeviceEvent(e)

Spec == Init /\ [][Next]_vars

\* The event loop of main with every frame one second long.
InputDurations == {4}

NextInput ==
    \/ \E d \in InputDurations : Update(d)
    \/ \E k \in KeyCodes, s \in ElementStates : KeyInput(k, s)
    \/ \E e \in DeviceEvents : DeviceEvent(e)

SpecInput == Init /\ [][NextInput]_vars

\* Inputs of the event loop when the host also removes nodes.
HostDurations == {0, 4}

HostKeyCodes == {"W", "D"}

\* The event loop of main with a host that removes nodes.
NextHost ==
    \/ \E d \in HostDurations : Update(d)
    \/ \E k \in HostKeyCodes, s \in ElementStates : KeyInput(k, s)
    \/ \E n \in {"player", "camera"} : HostRemoveNode(n)

SpecHost == Init /\ [][NextHost]_vars

----------------------------------------------------------------------------
(* Vocabulary of the properties *)

\* This step is a call of Game::update.
UpdateStep == updates' = updates + 1

\* The player's displacement in this step.
Displacement == VSub(scene'.player.position, scene.player.position)

\* (speed * dt)^2 for dt = d ticks, in units of 1/Den^2
SpeedDtSquared(d) ==
    LET m == (Speed * d * Den) \div TicksPerSecond
    IN  <<m * m, 0>>

AnyKeyHeld ==
    \/ input_state.move_forward
    \/ input_state.move_backward
    \/ input_state.move_left
    \/ input_state.move_right

\* The keys held do not cancel out on both axes.
KeysDoNotCancel ==
    \/ input_state.move_forward # input_state.move_backward
    \/ input_state.move_left # input_state.move_right

\* C1 as written: in every update the player's displacement has magnitude
\* speed * dt if at least one direction boolean is true, and 0 if none is.
C1_Original ==
    [][UpdateStep =>
        MagnitudeSquared(Displacement) =
            IF AnyKeyHeld THEN SpeedDtSquared(dt') ELSE <<0, 0>>]_vars

\* C1 amended: in every update the player's displacement has magnitude
\* speed * dt if the keys held do not cancel out (diagonal or single axis
\* alike), and 0 if no key is held or only opposing pairs are held.
C1_MovementMagnitude ==
    [][UpdateStep =>
        MagnitudeSquared(Displacement) =
            IF KeysDoNotCancel THEN SpeedDtSquared(dt') ELSE <<0, 0>>]_vars

\* C1 witness: an update with dt > 0 has moved the player diagonally.
C1_Witness ==
    /\ updates >= 1
    /\ dt > 0
    /\ input_state.move_forward /\ input_state.move_right
    /\ ~input_state.move_backward /\ ~input_state.move_left
    /\ scene.player.position[1][2] > 0
    /\ scene.player.position[3][2] < 0

\* C2: in every update, an axis whose two keys are both held (or both
\* released) is left unchanged, one key alone moves the player its way
\* (forward -Z, backward +Z, left -X, right +X), and with a zero raw vector
\* the position is unchanged; the position is never NaN.
C2_OpposingKeysCancel ==
    [][UpdateStep =>
        LET old == scene.player.position
            new == scene'.player.position
            f == input_state.move_forward
            b == input_state.move_backward
            l == input_state.move_left
            r == input_state.move_right
        IN  /\ ~IsNaNVec(new)
            /\ new[2] = old[2]
            /\ (f = b) => new[3] = old[3]
            /\ (l = r) => new[1] = old[1]
            /\ (f /\ ~b /\ dt' > 0) => SLess(new[3], old[3])
            /\ (b /\ ~f /\ dt' > 0) => SLess(old[3], new[3])
            /\ (l /\ ~r /\ dt' > 0) => SLess(new[1], old[1])
            /\ (r /\ ~l /\ dt' > 0) => SLess(old[1], new[1])
            /\ (f = b /\ l = r) => new = old]_vars

\* C2 witness: both updates ran with dt > 0, the player went left at full
\* speed and not at all along Z, and forward and backward are both held.
C2_Witness ==
    /\ updates = MaxUpdates
    /\ dt > 0 /\ dt_total > dt
    /\ input_state.move_forward /\ input_state.move_backward
    /\ input_state.move_left /\ ~input_state.move_right
    /\ scene.player.position = VAdd(Vec(0, 1, 0), <<Q(-(Speed * dt_total), TicksPerSecond), Q(0, 1), Q(0, 1)>>)

\* C3: in every update the camera's target, its new position and its look
\* direction are computed from the player position as moved in that update.
C3_CameraSeesMovedPlayer ==
    [][UpdateStep =>
        LET moved == scene'.player.position
        IN  /\ target_position' = VAdd(moved, CameraOffset)
            /\ scene'.camera.position =
                   Lerp(scene.camera.position, VAdd(moved, CameraOffset), dt')
            /\ scene'.camera.rotation =
                   LookAtRh(UnitDirection(VSub(moved, scene'.camera.position)))]_vars

\* C3 witness: an update with dt > 0 moved the player, and the target is
\* the moved position plus the offset.
C3_Witness ==
    /\ updates >= 1
    /\ dt > 0
    /\ scene.player.position # Vec(0, 1, 0)
    /\ target_position = VAdd(scene.player.position, CameraOffset)
    /\ scene.camera.rotation # RotIdentity

\* C4 as written: an update that finds the player or the camera absent
\* changes neither the player pose nor the camera pose.
C4_Original ==
    [][(UpdateStep /\ (~scene.player.live \/ ~scene.camera.live)) =>
        scene' = scene]_vars

\* C4 amended: an update that finds the player absent changes neither pose;
\* one that finds only the camera absent leaves the camera pose unchanged
\* and moves the player as usual; either way the update completes.
C4_MissingNodeSkips ==
    [][UpdateStep =>
        /\ ~scene.player.live => scene' = scene
        /\ ~scene.camera.live =>
              /\ scene'.camera = scene.camera
              /\ scene.player.live =>
                    MagnitudeSquared(Displacement) =
                        IF KeysDoNotCancel THEN SpeedDtSquared(dt') ELSE <<0, 0>>]_vars

\* C4 witness: the camera is absent, both updates have run, and the player
\* has moved while the camera kept its initial pose.
C4_Witness ==
    /\ updates = MaxUpdates
    /\ ~scene.camera.live
    /\ scene.player.live
    /\ scene.camera = [CreateCamera EXCEPT !.live = FALSE]
    /\ scene.player.position # Vec(0, 1, 0)

\* C5: whenever an update leaves the camera exactly at the player's
\* position, the orientation it writes is not NaN.
C5_CoincidentCameraGuarded ==
    (updates >= 1 /\ scene.camera.position = scene.player.position)
        => scene.camera.rotation # RotNaN

\* a lies on the segment from p to q, coordinate by coordinate
CoordinatesBetween(p, a, q) ==
    \A i \in 1..3 :
        \/ ~SLess(a[i], p[i]) /\ ~SLess(q[i], a[i])
        \/ ~SLess(a[i], q[i]) /\ ~SLess(p[i], a[i])

\* (a - p) x (q - p) = 0: p, a and q are collinear
Collinear(p, a, q) ==
    LET u == VSub(a, p)
        w == VSub(q, p)
    IN  /\ SMul(u[2], w[3]) = SMul(u[3], w[2])
        /\ SMul(u[3], w[1]) = SMul(u[1], w[3])
        /\ SMul(u[1], w[2]) = SMul(u[2], w[1])

\* a is on the closed segment from p to q
OnSegment(p, a, q) == CoordinatesBetween(p, a, q) /\ Collinear(p, a, q)

\* a is on the segment from p to q and is neither p nor q
StrictlyBetween(p, a, q) == OnSegment(p, a, q) /\ a # p /\ a # q

\* C6 as written: in every update with dt * 2 <= 1 (dt <= 2 ticks) the new
\* camera position is strictly between the previous one and the target.
C6_Original ==
    [][(UpdateStep /\ dt' * 2 <= TicksPerSecond) =>
        StrictlyBetween(scene.camera.position, scene'.camera.position,
                        target_position')]_vars

\* C6 amended: in every update with dt * 2 <= 1 the new camera position is
\* on the closed segment from the previous position to the target (no
\* overshoot): it is the previous position when dt = 0, the target when
\* dt * 2 = 1, and strictly between the two when 0 < dt * 2 < 1 and the
\* camera was not already at the target.
C6_NoOvershoot ==
    [][(UpdateStep /\ dt' * 2 <= TicksPerSecond) =>
        LET old == scene.camera.position
            new == scene'.camera.position
            target == VAdd(scene'.player.position, CameraOffset)
        IN  /\ OnSegment(old, new, target)
            /\ dt' = 0 => new = old
            /\ dt' * 2 = TicksPerSecond => new = target
            /\ (0 < dt' /\ dt' * 2 < TicksPerSecond /\ old # target)
                   => StrictlyBetween(old, new, target)]_vars

\* C6 witness: after an update with 0 < dt * 2 < 1 the camera is strictly
\* between its initial position and the target of that update.
C6_Witness ==
    /\ updates = 1
    /\ 0 < dt /\ dt * 2 < TicksPerSecond
    /\ scene.player.position # Vec(0, 1, 0)
    /\ StrictlyBetween(CreateCamera.position, scene.camera.position, target_position)

\* C7 as written: after two updates in a row with dt = 0 both poses are
\* what they were before the first of the two.
C7_Original == before2 # <<>> => scene = before2[1]

\* C7 amended: after two updates in a row with dt = 0 the player pose and
\* the camera position are what they were before the first of the two, and
\* the second update has changed nothing at all; the first may change the
\* camera rotation (the first update after construction replaces the
\* default rotation by the look-at rotation).
C7_ZeroDtIdempotent ==
    /\ before1 # <<>> =>
          /\ scene.player = before1[1].player
          /\ scene.camera.position = before1[1].camera.position
    /\ before2 # <<>> =>
          /\ scene = before1[1]
          /\ scene.player = before2[1].player
          /\ scene.camera.position = before2[1].camera.position

\* C7 witness: two updates in a row with dt = 0 have run with a key held.
C7_Witness ==
    /\ before2 # <<>>
    /\ input_state.move_forward /\ input_state.move_left
    /\ scene.camera.rotation # before2[1].camera.rotation

\* C8: handle_key_input with W, S, A or D sets the matching boolean to
\* "pressed" and leaves the rest of InputState unchanged; any other key
\* code, or none, leaves InputState unchanged.
C8_KeyMapping ==
    [][\A k \in KeyCodes, s \in ElementStates :
        KeyInput(k, s) =>
            LET p == (s = "Pressed")
                old == input_state
                new == input_state'
            IN  /\ new.move_forward = IF k = "W" THEN p ELSE old.move_forward
                /\ new.move_backward = IF k = "S" THEN p ELSE old.move_backward
                /\ new.move_left = IF k = "A" THEN p ELSE old.move_left
                /\ new.move_right = IF k = "D" THEN p ELSE old.move_right
                /\ new.mouse_delta = old.mouse_delta
                /\ new.camera_yaw = old.camera_yaw
                /\ new.camera_pitch = old.camera_pitch
                /\ k \in {"Space", "None"} => new = old]_vars

\* C8 witness: W and A have been pressed, S and D are released.
C8_Witness ==
    /\ input_state.move_forward /\ input_state.move_left
    /\ ~input_state.move_backward /\ ~input_state.move_right
    /\ input_state.mouse_delta # <<0, 0, 0>>

\* C9: an update leaves InputState unchanged; every other step (an input
\* handler) changes nothing but InputState.
C9_InputStateFrame ==
    [][/\ UpdateStep => input_state' = input_state
       /\ ~UpdateStep =>
              /\ scene' = scene
              /\ last_time' = last_time
              /\ dt' = dt
              /\ target_position' = target_position]_vars

\* C9 witness: forward is still held after two updates with dt > 0, and
\* the player has moved forward at full speed in both.
C9_Witness ==
    /\ updates = MaxUpdates
    /\ dt > 0 /\ dt_total > dt
    /\ input_state.move_forward
    /\ ~input_state.move_backward /\ ~input_state.move_left /\ ~input_state.move_right
    /\ scene.player.position = VAdd(Vec(0, 1, 0), <<Q(0, 1), Q(0, 1), Q(-(Speed * dt_total), TicksPerSecond)>>)

\* C10: dt is never negative, each update stores the clock reading as
\* last_time, and the dt of all updates sum to the time from construction
\* to the latest update.
C10_DeltaTime ==
    /\ dt >= 0
    /\ last_time = clock
    /\ dt_total = last_time - created

\* C10 witness: two updates with dt > 0 have run.
C10_Witness ==
    /\ updates = MaxUpdates
    /\ dt > 0 /\ dt_total > dt
    /\ last_time = created + dt_total
====
